---- MODULE Spec2Model ----
(***************************************************************************)
(* The node layer of the on-disk B+Tree of src/tree.go: the byte layout of *)
(* a node, its accessors, nodeLookupLE and the copy-on-write builders      *)
(* nodeAppendKV, nodeAppendRange and leafInsert.                           *)
(*                                                                         *)
(* A BNode is a Go slice: a reference to a byte buffer.  The buffers live  *)
(* in the heap `mem` (buffer id -> byte sequence) and the builders take    *)
(* buffer ids, so that which buffer a builder writes is decided by the     *)
(* translated code and not by the shape of the model.  Go index p of a     *)
(* buffer is element p+1 of its sequence.  Every buffer is the result of   *)
(* make([]byte, n): its capacity equals its length.                        *)
(*                                                                         *)
(* A Go panic is modelled as an outcome: an accessor returns the record    *)
(* [panic, v], a writer threads the record [mem, panic] and does nothing   *)
(* once panic is set (the rest of the Go function is not executed; the     *)
(* bytes already written stay written).                                    *)
(***************************************************************************)
EXTENDS Integers, Sequences, FiniteSets, TLC

\* ------------------------------------------------------------ constants
HEADER == 4

BNODE_NODE == 1

BNODE_LEAF == 2

\* uint16 arithmetic wraps modulo 2^16
Uint16Mod == 65536

\* ------------------------------------------------------------ bounds
\* length of a page buffer handed to the builders (the program's pages are
\* BTREE_PAGE_SIZE bytes; the builders never read that constant, they see
\* only the slice they are given)
BufLen == 52

\* largest key count a caller announces with setHeader when it builds a
\* node record by record
MaxBuildKeys == 2

\* ------------------------------------------------------------ inputs
\* records (key, val) the callers insert: "a"/"1", "b"/"2", "ab"/"",
\* "c"/"34", ""/"5"
Entries ==
  { [key |-> <<97>>,     val |-> <<49>>],
    [key |-> <<98>>,     val |-> <<50>>],
    [key |-> <<97, 98>>, val |-> <<>>],
    [key |-> <<99>>,     val |-> <<51, 52>>],
    [key |-> <<>>,       val |-> <<53>>] }

\* keys looked up: the keys above and keys between, below and above them
ProbeKeys ==
  { <<>>, <<97>>, <<97, 97>>, <<97, 98>>, <<98>>, <<98, 98>>, <<99>>, <<100>> }

\* page numbers given to nodeAppendKV and setPtr: 0 for a leaf's unused
\* pointer, a child page number otherwise
Ptrs == {0, 258}

\* offsets given to setOffset
Offsets == {9}

\* buffer ids: two page buffers and main's test_node
Pages == {1, 2}

TestNode == 3

Bufs == Pages \cup {TestNode}

\* ------------------------------------------------------------ outcomes
Ok(v) == [panic |-> FALSE, v |-> v]

Panic == [panic |-> TRUE, v |-> 0]

PanicBytes == [panic |-> TRUE, v |-> <<>>]

Raise(s) == [mem |-> s.mem, panic |-> TRUE]

u16(x) == x % Uint16Mod

Zeroes(n) == [i \in 1..n |-> 0]

\* ------------------------------------------------------------ library
\* binary.LittleEndian.Uint16(node[pos:]): node[pos:] panics when pos is
\* beyond the length, Uint16 when fewer than 2 bytes are left
Uint16(node, pos) ==
  IF pos + 2 > Len(node) THEN Panic
  ELSE Ok(node[pos + 1] + 256 * node[pos + 2])

RECURSIVE LittleEndianValue(_)
LittleEndianValue(bs) ==
  IF bs = <<>> THEN 0 ELSE bs[1] + 256 * LittleEndianValue(Tail(bs))

RECURSIVE LittleEndianBytes(_, _)
LittleEndianBytes(v, n) ==
  IF n = 0 THEN <<>> ELSE <<v % 256>> \o LittleEndianBytes(v \div 256, n - 1)

\* binary.LittleEndian.Uint64(node[pos:])
Uint64(node, pos) ==
  IF pos + 8 > Len(node) THEN Panic
  ELSE Ok(LittleEndianValue(SubSeq(node, pos + 1, pos + 8)))

\* the bytes bs written over node from Go index pos on; bs fits
Splice(node, pos, bs) ==
  [i \in 1..Len(node) |->
     IF pos < i /\ i <= pos + Len(bs) THEN bs[i - pos] ELSE node[i]]

Store(s, b, node) == [mem |-> [s.mem EXCEPT ![b] = node], panic |-> FALSE]

\* binary.LittleEndian.PutUint16(node[pos:], v): the bounds check comes
\* before the first byte is written
PutUint16(s, b, pos, v) ==
  IF s.panic THEN s
  ELSE IF pos + 2 > Len(s.mem[b]) THEN Raise(s)
  ELSE Store(s, b, Splice(s.mem[b], pos, LittleEndianBytes(v, 2)))

\* binary.LittleEndian.PutUint64(node[pos:], v)
PutUint64(s, b, pos, v) ==
  IF s.panic THEN s
  ELSE IF pos + 8 > Len(s.mem[b]) THEN Raise(s)
  ELSE Store(s, b, Splice(s.mem[b], pos, LittleEndianBytes(v, 8)))

Min(a, b) == IF a < b THEN a ELSE b

\* copy(node[pos:], bs): node[pos:] panics when pos is beyond the length;
\* copy writes min(len(dst), len(src)) bytes and does not panic
copy(s, b, pos, bs) ==
  IF s.panic THEN s
  ELSE IF pos > Len(s.mem[b]) THEN Raise(s)
  ELSE Store(s, b, Splice(s.mem[b], pos,
                          SubSeq(bs, 1, Min(Len(s.mem[b]) - pos, Len(bs)))))

\* node[from:][:n]: panics when from is beyond the length or n beyond the
\* capacity that is left
Slice(node, from, n) ==
  IF from > Len(node) \/ n > Len(node) - from THEN PanicBytes
  ELSE Ok(SubSeq(node, from + 1, from + n))

\* node[begin:end]
SliceRange(node, begin, end) ==
  IF end > Len(node) \/ begin > end THEN PanicBytes
  ELSE Ok(SubSeq(node, begin + 1, end))

\* bytes.Compare: -1, 0 or 1, byte-lexicographic
RECURSIVE Compare(_, _)
Compare(a, b) ==
  IF a = <<>> /\ b = <<>> THEN 0
  ELSE IF a = <<>> THEN -1
  ELSE IF b = <<>> THEN 1
  ELSE IF a[1] < b[1] THEN -1
  ELSE IF a[1] > b[1] THEN 1
  ELSE Compare(Tail(a), Tail(b))

\* ------------------------------------------------------------ accessors
\* every buffer of the model holds at least the HEADER bytes
btype(node) == node[1] + 256 * node[2]

nkeys(node) == node[3] + 256 * node[4]

setHeader(s, b, bt, nk) == PutUint16(PutUint16(s, b, 0, bt), b, 2, nk)

getPtr(node, idx) ==
  IF idx >= nkeys(node) THEN Panic
  ELSE Uint64(node, u16(HEADER + 8 * idx))

setPtr_offByOne(s, b, idx, val) ==
  IF s.panic THEN s
  ELSE IF idx > nkeys(s.mem[b]) THEN Raise(s)
  ELSE PutUint64(s, b, u16(HEADER + 8 * idx), val)

setPtr(s, b, idx, val) ==
  IF s.panic THEN s
  ELSE IF idx >= nkeys(s.mem[b]) THEN Raise(s)
  ELSE PutUint64(s, b, u16(HEADER + 8 * idx), val)

offsetPos(node, idx) ==
  IF idx < 1 \/ idx > nkeys(node) THEN Panic
  ELSE Ok(u16(HEADER + 8 * nkeys(node) + 2 * (idx - 1)))

getOffset(node, idx) ==
  IF idx = 0 THEN Ok(0)
  ELSE LET pos == offsetPos(node, idx)
       IN  IF pos.panic THEN Panic ELSE Uint16(node, pos.v)

setOffset(s, b, idx, offset) ==
  IF s.panic THEN s
  ELSE LET pos == offsetPos(s.mem[b], idx)
       IN  IF pos.panic THEN Raise(s) ELSE PutUint16(s, b, pos.v, offset)

kvPos(node, idx) ==
  IF idx > nkeys(node) THEN Panic
  ELSE LET off == getOffset(node, idx)
       IN  IF off.panic THEN Panic
           ELSE Ok(u16(HEADER + 8 * nkeys(node) + 2 * nkeys(node) + off.v))

getKey(node, idx) ==
  IF idx >= nkeys(node) THEN PanicBytes
  ELSE LET pos == kvPos(node, idx)
       IN  IF pos.panic THEN PanicBytes
           ELSE LET klen == Uint16(node, pos.v)
                IN  IF klen.panic THEN PanicBytes
                    ELSE Slice(node, u16(pos.v + 4), klen.v)

getVal(node, idx) ==
  IF idx >= nkeys(node) THEN PanicBytes
  ELSE LET pos == kvPos(node, idx)
       IN  IF pos.panic THEN PanicBytes
           ELSE LET klen == Uint16(node, pos.v)
                    vlen == Uint16(node, u16(pos.v + 2))
                IN  IF klen.panic \/ vlen.panic THEN PanicBytes
                    ELSE Slice(node, u16(pos.v + 4 + klen.v), vlen.v)

nbytes(node) == kvPos(node, nkeys(node))

\* ------------------------------------------------------------ search
\* the loop of nodeLookupLE from index i on, found so far
RECURSIVE lookupLoop(_, _, _, _)
lookupLoop(node, key, i, found) ==
  IF i >= nkeys(node) THEN Ok(found)
  ELSE LET k == getKey(node, i)
       IN  IF k.panic THEN Panic
           ELSE LET cmp == Compare(k.v, key)
                    f == IF cmp <= 0 THEN i ELSE found
                IN  IF cmp >= 0 THEN Ok(f)
                    ELSE lookupLoop(node, key, i + 1, f)

RECURSIVE lookupLoop_strict(_, _, _, _)
lookupLoop_strict(node, key, i, found) ==
  IF i >= nkeys(node) THEN Ok(found)
  ELSE LET k == getKey(node, i)
       IN  IF k.panic THEN Panic
           ELSE LET cmp == Compare(k.v, key)
                    f == IF cmp < 0 THEN i ELSE found
                IN  IF cmp >= 0 THEN Ok(f)
                    ELSE lookupLoop_strict(node, key, i + 1, f)

nodeLookupLE_strict(node, key) == lookupLoop_strict(node, key, 1, 0)

nodeLookupLE_from2(node, key) == lookupLoop(node, key, 2, 0)

nodeLookupLE(node, key) == lookupLoop(node, key, 1, 0)

\* ------------------------------------------------------------ builders
nodeAppendKV_noHeader(s, new, idx, ptr, key, val) ==
  LET s1 == setPtr(s, new, idx, ptr)
  IN  IF s1.panic THEN s1
      ELSE LET pos == kvPos(s1.mem[new], idx)
           IN  IF pos.panic THEN Raise(s1)
               ELSE
  LET s2 == PutUint16(s1, new, pos.v, u16(Len(key)))
      s3 == PutUint16(s2, new, u16(pos.v + 2), u16(Len(val)))
      s4 == copy(s3, new, u16(pos.v + 4), key)
      s5 == copy(s4, new, u16(pos.v + 4 + u16(Len(key))), val)
  IN  IF s5.panic THEN s5
      ELSE LET off == getOffset(s5.mem[new], idx)
           IN  IF off.panic THEN Raise(s5)
               ELSE setOffset(s5, new, u16(idx + 1),
                              u16(off.v + u16(Len(key) + Len(val))))

nodeAppendKV_valOverKey(s, new, idx, ptr, key, val) ==
  LET s1 == setPtr(s, new, idx, ptr)
  IN  IF s1.panic THEN s1
      ELSE LET pos == kvPos(s1.mem[new], idx)
           IN  IF pos.panic THEN Raise(s1)
               ELSE
  LET s2 == PutUint16(s1, new, pos.v, u16(Len(key)))
      s3 == PutUint16(s2, new, u16(pos.v + 2), u16(Len(val)))
      s4 == copy(s3, new, u16(pos.v + 4), key)
      s5 == copy(s4, new, u16(pos.v + 4), val)
  IN  IF s5.panic THEN s5
      ELSE LET off == getOffset(s5.mem[new], idx)
           IN  IF off.panic THEN Raise(s5)
               ELSE setOffset(s5, new, u16(idx + 1),
                              u16(off.v + 4 + u16(Len(key) + Len(val))))

nodeAppendKV(s, new, idx, ptr, key, val) ==
  LET s1 == setPtr(s, new, idx, ptr)
  IN  IF s1.panic THEN s1
      ELSE LET pos == kvPos(s1.mem[new], idx)
           IN  IF pos.panic THEN Raise(s1)
               ELSE
  LET s2 == PutUint16(s1, new, pos.v, u16(Len(key)))
      s3 == PutUint16(s2, new, u16(pos.v + 2), u16(Len(val)))
      s4 == copy(s3, new, u16(pos.v + 4), key)
      s5 == copy(s4, new, u16(pos.v + 4 + u16(Len(key))), val)
  IN  IF s5.panic THEN s5
      ELSE LET off == getOffset(s5.mem[new], idx)
           IN  IF off.panic THEN Raise(s5)
               ELSE setOffset(s5, new, u16(idx + 1),
                              u16(off.v + 4 + u16(Len(key) + Len(val))))

\* for i := 0; i < n; i++ { new.setPtr(dstNew+i, old.getPtr(srcOld+i)) }
RECURSIVE copyPtrs(_, _, _, _, _, _, _)
copyPtrs(s, new, old, dstNew, srcOld, n, i) ==
  IF s.panic \/ i >= n THEN s
  ELSE LET p == getPtr(s.mem[old], u16(srcOld + i))
       IN  IF p.panic THEN Raise(s)
           ELSE copyPtrs(setPtr(s, new, u16(dstNew + i), p.v),
                         new, old, dstNew, srcOld, n, i + 1)

\* for i := 1; i <= n; i++ { new.setOffset(dstNew+i, dstBegin + ... ) }
RECURSIVE copyOffsets(_, _, _, _, _, _, _, _, _)
copyOffsets(s, new, old, dstNew, srcOld, n, dstBegin, srcBegin, i) ==
  IF s.panic \/ i > n THEN s
  ELSE LET o == getOffset(s.mem[old], u16(srcOld + i))
       IN  IF o.panic THEN Raise(s)
           ELSE copyOffsets(
                  setOffset(s, new, u16(dstNew + i),
                            u16(dstBegin + o.v - srcBegin + Uint16Mod)),
                  new, old, dstNew, srcOld, n, dstBegin, srcBegin, u16(i + 1))

nodeAppendRange_offsetsIntoOld(s, new, old, dstNew, srcOld, n) ==
  IF s.panic \/ n = 0 THEN s
  ELSE
  LET s1 == copyPtrs(s, new, old, dstNew, srcOld, n, 0)
  IN  IF s1.panic THEN s1
      ELSE
  LET dstBegin == getOffset(s1.mem[new], dstNew)
      srcBegin == getOffset(s1.mem[old], srcOld)
  IN  IF dstBegin.panic \/ srcBegin.panic THEN Raise(s1)
      ELSE
  LET s2 == copyOffsets(s1, old, old, dstNew, srcOld, n,
                        dstBegin.v, srcBegin.v, 1)
  IN  IF s2.panic THEN s2
      ELSE
  LET begin == kvPos(s2.mem[old], srcOld)
      end   == kvPos(s2.mem[old], u16(srcOld + n))
      dst   == kvPos(s2.mem[new], dstNew)
  IN  IF begin.panic \/ end.panic \/ dst.panic THEN Raise(s2)
      ELSE LET kvs == SliceRange(s2.mem[old], begin.v, end.v)
           IN  IF kvs.panic THEN Raise(s2)
               ELSE copy(s2, new, dst.v, kvs.v)

nodeAppendRange_noSrcBegin(s, new, old, dstNew, srcOld, n) ==
  IF s.panic \/ n = 0 THEN s
  ELSE
  LET s1 == copyPtrs(s, new, old, dstNew, srcOld, n, 0)
  IN  IF s1.panic THEN s1
      ELSE
  LET dstBegin == getOffset(s1.mem[new], dstNew)
      srcBegin == getOffset(s1.mem[old], srcOld)
  IN  IF dstBegin.panic \/ srcBegin.panic THEN Raise(s1)
      ELSE
  LET s2 == copyOffsets(s1, new, old, dstNew, srcOld, n,
                        dstBegin.v, 0, 1)
  IN  IF s2.panic THEN s2
      ELSE
  LET begin == kvPos(s2.mem[old], srcOld)
      end   == kvPos(s2.mem[old], u16(srcOld + n))
      dst   == kvPos(s2.mem[new], dstNew)
  IN  IF begin.panic \/ end.panic \/ dst.panic THEN Raise(s2)
      ELSE LET kvs == SliceRange(s2.mem[old], begin.v, end.v)
           IN  IF kvs.panic THEN Raise(s2)
               ELSE copy(s2, new, dst.v, kvs.v)

nodeAppendRange(s, new, old, dstNew, srcOld, n) ==
  IF s.panic \/ n = 0 THEN s
  ELSE
  LET s1 == copyPtrs(s, new, old, dstNew, srcOld, n, 0)
  IN  IF s1.panic THEN s1
      ELSE
  LET dstBegin == getOffset(s1.mem[new], dstNew)
      srcBegin == getOffset(s1.mem[old], srcOld)
  IN  IF dstBegin.panic \/ srcBegin.panic THEN Raise(s1)
      ELSE
  LET s2 == copyOffsets(s1, new, old, dstNew, srcOld, n,
                        dstBegin.v, srcBegin.v, 1)
  IN  IF s2.panic THEN s2
      ELSE
  LET begin == kvPos(s2.mem[old], srcOld)
      end   == kvPos(s2.mem[old], u16(srcOld + n))
      dst   == kvPos(s2.mem[new], dstNew)
  IN  IF begin.panic \/ end.panic \/ dst.panic THEN Raise(s2)
      ELSE LET kvs == SliceRange(s2.mem[old], begin.v, end.v)
           IN  IF kvs.panic THEN Raise(s2)
               ELSE copy(s2, new, dst.v, kvs.v)

leafInsert_clamped(s, new, old, idx, key, val) ==
  LET at == Min(idx, nkeys(s.mem[old]))
      s1 == setHeader(s, new, BNODE_LEAF, u16(nkeys(s.mem[old]) + 1))
      s2 == nodeAppendRange(s1, new, old, 0, 0, at)
      s3 == nodeAppendKV(s2, new, at, 0, key, val)
  IN  IF s3.panic THEN s3
      ELSE nodeAppendRange(s3, new, old, u16(at + 1), at,
                           u16(nkeys(s3.mem[old]) - at + Uint16Mod))

leafInsert_tailAtIdx(s, new, old, idx, key, val) ==
  LET s1 == setHeader(s, new, BNODE_LEAF, u16(nkeys(s.mem[old]) + 1))
      s2 == nodeAppendRange(s1, new, old, 0, 0, idx)
      s3 == nodeAppendKV(s2, new, idx, 0, key, val)
  IN  IF s3.panic THEN s3
      ELSE nodeAppendRange(s3, new, old, idx, idx,
                           u16(nkeys(s3.mem[old]) - idx + Uint16Mod))

leafInsert(s, new, old, idx, key, val) ==
  LET s1 == setHeader(s, new, BNODE_LEAF, u16(nkeys(s.mem[old]) + 1))
      s2 == nodeAppendRange(s1, new, old, 0, 0, idx)
      s3 == nodeAppendKV(s2, new, idx, 0, key, val)
  IN  IF s3.panic THEN s3
      ELSE nodeAppendRange(s3, new, old, u16(idx + 1), idx,
                           u16(nkeys(s3.mem[old]) - idx + Uint16Mod))

\* ------------------------------------------------------------ state
VARIABLES
  mem,       \* buffer id -> bytes
  old,       \* the page holding the current node (read-only for the builders)
  new,       \* the page the next node is built in
  pc,        \* "idle", or the name of the call that was just made
  panicked,  \* whether that call panicked
  arg,       \* its arguments
  ret,       \* its return value
  pre,       \* the bytes of the accessed buffer before an accessor call
  recs,      \* the records (ptr, key, val) of the node in `old`, in order
  supplied,  \* the records the node being built in `new` was given, in order
  ninserts   \* the number of leafInsert calls that produced the node in `old`

vars ==
  <<mem, old, new, pc, panicked, arg, ret, pre, recs, supplied, ninserts>>

NoArg ==
  [b |-> 0, idx |-> 0, ptr |-> 0, key |-> <<>>, val |-> <<>>]

NoRet == [v |-> 0, bytes |-> <<>>]

Heap == [mem |-> mem, panic |-> FALSE]

\* new := BNode(make([]byte, BufLen))
Fresh(s, b) == [mem |-> [s.mem EXCEPT ![b] = Zeroes(BufLen)], panic |-> s.panic]

InsertAt(seq, idx, r) ==
  SubSeq(seq, 1, idx) \o <<r>> \o SubSeq(seq, idx + 1, Len(seq))

\* the caller's size check: the encoded node lies within its page
Fits(node) ==
  LET nb == nbytes(node) IN ~nb.panic /\ nb.v <= Len(node)

\* indices a caller passes: the valid ones, one and two past the end and
\* the largest uint16
CallIdx(node) == (0..(nkeys(node) + 1)) \cup {Uint16Mod - 1}

\* the state after construction, main about to run: the tree's node is an
\* empty leaf, the spare page and test_node are zeroed
Init ==
  /\ mem = setHeader(
             [mem |-> [b \in Bufs |->
                         IF b = TestNode THEN Zeroes(HEADER) ELSE Zeroes(BufLen)],
              panic |-> FALSE], 1, BNODE_LEAF, 0).mem
  /\ old = 1
  /\ new = 2
  /\ pc = "main"
  /\ panicked = FALSE
  /\ arg = NoArg
  /\ ret = NoRet
  /\ pre = <<>>
  /\ recs = <<>>
  /\ supplied = <<>>
  /\ ninserts = 0

\* main: test_node.setHeader(BNODE_LEAF, 5) on a buffer of HEADER bytes
Main ==
  /\ pc = "main"
  /\ mem' = setHeader(Heap, TestNode, BNODE_LEAF, 5).mem
  /\ pc' = "idle"
  /\ UNCHANGED <<old, new, panicked, arg, ret, pre, recs, supplied, ninserts>>

\* leafInsert(new, old, idx, key, val) into a freshly zeroed page
LeafInsertCall ==
  /\ pc = "idle"
  /\ \E idx \in CallIdx(mem[old]), e \in Entries :
       LET s == leafInsert(Fresh(Heap, new), new, old, idx, e.key, e.val)
       IN  /\ mem' = s.mem
           /\ panicked' = s.panic
           /\ arg' = [NoArg EXCEPT !.b = new, !.idx = idx,
                                   !.key = e.key, !.val = e.val]
           /\ supplied' =
                IF idx <= Len(recs)
                THEN InsertAt(recs, idx, [ptr |-> 0, key |-> e.key, val |-> e.val])
                ELSE recs
  /\ pc' = "leafInsert"
  /\ ret' = NoRet
  /\ pre' = <<>>
  /\ UNCHANGED <<old, new, recs, ninserts>>

\* the caller keeps the node leafInsert built, when it fits its page: the
\* new page becomes the current node and the old page the spare one
Commit ==
  /\ pc = "leafInsert"
  /\ ~panicked
  /\ Fits(mem[new])
  /\ old' = new
  /\ new' = old
  /\ recs' = supplied
  /\ ninserts' = ninserts + 1
  /\ pc' = "idle"
  /\ arg' = NoArg
  /\ ret' = NoRet
  /\ pre' = <<>>
  /\ UNCHANGED <<mem, panicked, supplied>>

\* the caller drops what the last call left and takes a zeroed spare page
Discard ==
  /\ pc \notin {"main", "idle"}
  /\ mem' = Fresh(Heap, new).mem
  /\ pc' = "idle"
  /\ panicked' = FALSE
  /\ arg' = NoArg
  /\ ret' = NoRet
  /\ pre' = <<>>
  /\ supplied' = <<>>
  /\ UNCHANGED <<old, new, recs, ninserts>>

\* nodeLookupLE(old, key)
LookupCall ==
  /\ pc = "idle"
  /\ \E key \in ProbeKeys :
       LET r == nodeLookupLE(mem[old], key)
       IN  /\ ret' = [NoRet EXCEPT !.v = r.v]
           /\ panicked' = r.panic
           /\ arg' = [NoArg EXCEPT !.b = old, !.key = key]
  /\ pc' = "nodeLookupLE"
  /\ pre' = <<>>
  /\ UNCHANGED <<mem, old, new, recs, supplied, ninserts>>

\* ------------------------------------------------------------ accessor calls
\* the buffers the accessors are called on: the spare page (the node the
\* last Commit replaced) and test_node
Accessed == {new, TestNode}

AccessIdx(node) == CallIdx(node) \cup {Uint16Mod \div 8}

\* a reading accessor f(node, idx) returning a number
ReadCall(name, b, idx, r) ==
  /\ pc = "idle"
  /\ pc' = name
  /\ panicked' = r.panic
  /\ ret' = [NoRet EXCEPT !.v = r.v]
  /\ arg' = [NoArg EXCEPT !.b = b, !.idx = idx]
  /\ pre' = mem[b]
  /\ UNCHANGED <<mem, old, new, recs, supplied, ninserts>>

\* a reading accessor returning bytes
ReadBytesCall(name, b, idx, r) ==
  /\ pc = "idle"
  /\ pc' = name
  /\ panicked' = r.panic
  /\ ret' = [NoRet EXCEPT !.bytes = r.v]
  /\ arg' = [NoArg EXCEPT !.b = b, !.idx = idx]
  /\ pre' = mem[b]
  /\ UNCHANGED <<mem, old, new, recs, supplied, ninserts>>

\* a writing accessor
WriteCall(name, b, idx, val, s) ==
  /\ pc = "idle"
  /\ pc' = name
  /\ panicked' = s.panic
  /\ mem' = s.mem
  /\ ret' = NoRet
  /\ arg' = [NoArg EXCEPT !.b = b, !.idx = idx, !.ptr = val]
  /\ pre' = mem[b]
  /\ UNCHANGED <<old, new, recs, supplied, ninserts>>

GetPtrCall ==
  \E b \in Accessed : \E idx \in AccessIdx(mem[b]) :
    ReadCall("getPtr", b, idx, getPtr(mem[b], idx))

SetPtrCall ==
  \E b \in Accessed : \E idx \in AccessIdx(mem[b]) : \E val \in Ptrs \ {0} :
    WriteCall("setPtr", b, idx, val, setPtr(Heap, b, idx, val))

OffsetPosCall ==
  \E b \in Accessed : \E idx \in AccessIdx(mem[b]) :
    ReadCall("offsetPos", b, idx, offsetPos(mem[b], idx))

GetOffsetCall ==
  \E b \in Accessed : \E idx \in AccessIdx(mem[b]) :
    ReadCall("getOffset", b, idx, getOffset(mem[b], idx))

SetOffsetCall ==
  \E b \in Accessed : \E idx \in AccessIdx(mem[b]) : \E val \in Offsets :
    WriteCall("setOffset", b, idx, val, setOffset(Heap, b, idx, val))

KvPosCall ==
  \E b \in Accessed : \E idx \in AccessIdx(mem[b]) :
    ReadCall("kvPos", b, idx, kvPos(mem[b], idx))

GetKeyCall ==
  \E b \in Accessed : \E idx \in AccessIdx(mem[b]) :
    ReadBytesCall("getKey", b, idx, getKey(mem[b], idx))

GetValCall ==
  \E b \in Accessed : \E idx \in AccessIdx(mem[b]) :
    ReadBytesCall("getVal", b, idx, getVal(mem[b], idx))

\* ------------------------------------------------------------ building
\* new.setHeader(bt, nk) on a freshly zeroed page: the start of a node built
\* record by record
SetHeaderCall ==
  /\ pc = "idle"
  /\ \E bt \in {BNODE_NODE, BNODE_LEAF}, nk \in 0..MaxBuildKeys :
       LET s == setHeader(Fresh(Heap, new), new, bt, nk)
       IN  /\ mem' = s.mem
           /\ panicked' = s.panic
  /\ pc' = "build"
  /\ supplied' = <<>>
  /\ UNCHANGED <<old, new, arg, ret, pre, recs, ninserts>>

\* nodeAppendKV(new, idx, ptr, key, val) at the next index to fill: a leaf
\* is given pointer 0, an internal node a child page number
AppendKVCall ==
  /\ pc = "build"
  /\ ~panicked
  /\ Len(supplied) < nkeys(mem[new])
  /\ \E e \in Entries :
     \E ptr \in IF btype(mem[new]) = BNODE_LEAF THEN {0} ELSE Ptrs \ {0} :
       LET idx == Len(supplied)
           s == nodeAppendKV(Heap, new, idx, ptr, e.key, e.val)
       IN  /\ mem' = s.mem
           /\ panicked' = s.panic
           /\ supplied' = Append(supplied,
                                 [ptr |-> ptr, key |-> e.key, val |-> e.val])
  /\ UNCHANGED <<old, new, pc, arg, ret, pre, recs, ninserts>>

\* nodeAppendRange(new, old, dstNew, srcOld, n) at the next index to fill
AppendRangeCall ==
  /\ pc = "build"
  /\ ~panicked
  /\ \E src \in 0..nkeys(mem[old]) : \E n \in 0..(nkeys(mem[old]) - src + 1) :
       LET dst == Len(supplied)
           s == nodeAppendRange(Heap, new, old, dst, src, n)
       IN  /\ dst + n <= nkeys(mem[new])
           /\ mem' = s.mem
           /\ panicked' = s.panic
           /\ supplied' = supplied \o SubSeq(recs, src + 1, Min(src + n, Len(recs)))
  /\ UNCHANGED <<old, new, pc, arg, ret, pre, recs, ninserts>>

\* ------------------------------------------------------------ specifications
\* inserts into the tree's leaf, lookups in it and accessor calls
Next ==
  \/ Main
  \/ LeafInsertCall
  \/ Commit
  \/ Discard
  \/ LookupCall
  \/ GetPtrCall
  \/ SetPtrCall
  \/ OffsetPosCall
  \/ GetOffsetCall
  \/ SetOffsetCall
  \/ KvPosCall
  \/ GetKeyCall
  \/ GetValCall

Spec == Init /\ [][Next]_vars

\* inserts into the tree's leaf and nodes built from it record by record
NextBuild ==
  \/ Main
  \/ LeafInsertCall
  \/ Commit
  \/ Discard
  \/ SetHeaderCall
  \/ AppendKVCall
  \/ AppendRangeCall

SpecBuild == Init /\ [][NextBuild]_vars

\* ------------------------------------------------------------ vocabulary
\* byte-lexicographic order, stated without bytes.Compare
LexLess(a, b) ==
  \E k \in 0..Min(Len(a), Len(b)) :
    /\ SubSeq(a, 1, k) = SubSeq(b, 1, k)
    /\ \/ k = Len(a) /\ k < Len(b)
       \/ k < Len(a) /\ k < Len(b) /\ a[k + 1] < b[k + 1]

LexLeq(a, b) == a = b \/ LexLess(a, b)

Readable(node) ==
  \A i \in 0..(nkeys(node) - 1) : ~getKey(node, i).panic /\ ~getVal(node, i).panic

KeyAt(node, i) == getKey(node, i).v

KeysOf(node) == {KeyAt(node, i) : i \in 0..(nkeys(node) - 1)}

StrictlyIncreasing(node) ==
  /\ Readable(node)
  /\ \A i \in 0..(nkeys(node) - 2) : LexLess(KeyAt(node, i), KeyAt(node, i + 1))

\* record idx of a node as the accessors return it
RecordAt(node, idx) ==
  [ptr |-> getPtr(node, idx), key |-> getKey(node, idx), val |-> getVal(node, idx)]

Given(r) == [ptr |-> Ok(r.ptr), key |-> Ok(r.key), val |-> Ok(r.val)]

RECURSIVE PayloadSize(_)
PayloadSize(rs) ==
  IF rs = <<>> THEN 0
  ELSE 4 + Len(rs[1].key) + Len(rs[1].val) + PayloadSize(Tail(rs))

\* HEADER + 8*nkeys + 2*nkeys + the sum over the records of 4+keylen+vallen
EncodedSize(rs) == HEADER + 8 * Len(rs) + 2 * Len(rs) + PayloadSize(rs)

LeafInsertReturned == pc = "leafInsert" /\ ~panicked

\* ------------------------------------------------------------ claims

\* C1: on a node with strictly increasing keys nodeLookupLE(node, probe)
\* returns the one index i with getKey(i) <= probe and (i = nkeys-1 or
\* getKey(i+1) > probe), and returns 0 when no key of the node is <= probe.
C1_LookupFloor ==
  (pc = "nodeLookupLE" /\ StrictlyIncreasing(mem[old])) =>
    LET node == mem[old]
        n == nkeys(node)
        probe == arg.key
        Floor(i) == /\ LexLeq(KeyAt(node, i), probe)
                    /\ (i = n - 1 \/ LexLess(probe, KeyAt(node, i + 1)))
    IN  /\ ~panicked
        /\ IF \E j \in 0..(n - 1) : LexLeq(KeyAt(node, j), probe)
           THEN /\ ret.v \in 0..(n - 1)
                /\ Floor(ret.v)
                /\ \A j \in 0..(n - 1) : Floor(j) => j = ret.v
           ELSE ret.v = 0

C1_Witness ==
  /\ pc = "nodeLookupLE"
  /\ StrictlyIncreasing(mem[old])
  /\ nkeys(mem[old]) = 3
  /\ ret.v = 1
  /\ arg.key \notin KeysOf(mem[old])

\* C2 as stated: a leafInsert at 0 <= idx <= old.nkeys() that returns leaves
\* new.nbytes() = old.nbytes() + 4 + len(key) + len(val).
C2_Original ==
  (LeafInsertReturned /\ arg.idx <= nkeys(mem[old])) =>
    /\ ~nbytes(mem[old]).panic
    /\ nbytes(mem[new]) =
         Ok(nbytes(mem[old]).v + 4 + Len(arg.key) + Len(arg.val))

\* C2, amended: a leafInsert at 0 <= idx <= old.nkeys() that returns leaves
\* new.nbytes() = old.nbytes() + 8 + 2 + 4 + len(key) + len(val): the new
\* record's pointer slot and offset slot count too.
C2_SizeGrowsByRecord ==
  (LeafInsertReturned /\ arg.idx <= nkeys(mem[old])) =>
    /\ ~nbytes(mem[old]).panic
    /\ nbytes(mem[new]) =
         Ok(nbytes(mem[old]).v + 8 + 2 + 4 + Len(arg.key) + Len(arg.val))

C2_Witness ==
  /\ LeafInsertReturned
  /\ nkeys(mem[old]) = 2
  /\ arg.idx = 1
  /\ Len(arg.val) = 2

C4_Case ==
  /\ LeafInsertReturned
  /\ Fits(mem[new])
  /\ StrictlyIncreasing(mem[old])
  /\ arg.key \notin KeysOf(mem[old])
  /\ ~nodeLookupLE(mem[old], arg.key).panic
  /\ arg.idx = nodeLookupLE(mem[old], arg.key).v + 1

C6_SourceUntouched ==
  [][(pc' \in {"leafInsert", "build"} /\ new # old) => mem'[old] = mem[old]]_vars

C6_Witness ==
  /\ pc = "leafInsert"
  /\ panicked
  /\ nkeys(mem[old]) >= 2
  /\ arg.idx <= nkeys(mem[old])
  /\ new # old
  /\ nkeys(mem[new]) = nkeys(mem[old]) + 1

\* C7: getPtr, setPtr, getKey and getVal panic for every idx >= nkeys;
\* offsetPos, setOffset and getOffset with idx # 0 panic for every idx outside
\* 1..nkeys (and kvPos for every idx > nkeys); getOffset(0) returns 0 whatever
\* the page holds; a call that panics leaves the node as it was.
C7_AccessorsBoundsChecked ==
  LET n == nkeys(pre)
      idx == arg.idx
  IN  /\ (pc \in {"getPtr", "setPtr", "getKey", "getVal"} /\ idx >= n) => panicked
      /\ (pc \in {"offsetPos", "setOffset"} /\ (idx < 1 \/ idx > n)) => panicked
      /\ (pc = "getOffset" /\ idx # 0 /\ idx > n) => panicked
      /\ (pc = "kvPos" /\ idx > n) => panicked
      /\ (pc = "getOffset" /\ idx = 0) => (~panicked /\ ret.v = 0)
      /\ (pc \in {"getPtr", "setPtr", "getKey", "getVal", "offsetPos",
                  "setOffset", "getOffset", "kvPos"} /\ panicked) =>
           mem[arg.b] = pre

C7_Witness ==
  /\ pc = "setPtr"
  /\ panicked
  /\ arg.b # TestNode
  /\ nkeys(pre) = 2
  /\ arg.idx = 2

\* C8: after any sequence of leafInsert calls from the empty leaf, each at an
\* index 0 <= idx <= nkeys, the node has nkeys = the number of inserts and
\* nbytes() = kvPos(nkeys) = HEADER + 8*nkeys + 2*nkeys + the sum over its
\* records of 4 + keylen + vallen; inserting ("b","2") at 0 and then
\* ("a","1") at 0 gives nkeys = 2, keys "a", "b" and nbytes() = 36.
C8_InsertSequence ==
  /\ nkeys(mem[old]) = ninserts
  /\ Len(recs) = ninserts
  /\ nbytes(mem[old]) = Ok(EncodedSize(recs))
  /\ (LeafInsertReturned /\ arg.idx <= nkeys(mem[old])) =>
       /\ nkeys(mem[new]) = ninserts + 1
       /\ Len(supplied) = ninserts + 1
       /\ nbytes(mem[new]) = kvPos(mem[new], nkeys(mem[new]))
       /\ nbytes(mem[new]) = Ok(EncodedSize(supplied))
  /\ (LeafInsertReturned /\ ninserts = 1
        /\ RecordAt(mem[old], 0) = Given([ptr |-> 0, key |-> <<98>>, val |-> <<50>>])
        /\ arg.idx = 0 /\ arg.key = <<97>> /\ arg.val = <<49>>) =>
       /\ nkeys(mem[new]) = 2
       /\ getKey(mem[new], 0) = Ok(<<97>>)
       /\ getKey(mem[new], 1) = Ok(<<98>>)
       /\ nbytes(mem[new]) = Ok(36)

C8_Witness ==
  /\ LeafInsertReturned
  /\ ninserts = 1
  /\ RecordAt(mem[old], 0) = Given([ptr |-> 0, key |-> <<98>>, val |-> <<50>>])
  /\ arg.idx = 0
  /\ arg.key = <<97>>
  /\ arg.val = <<49>>

\* the size of the node a builder call was asked to produce: the announced
\* key count and the records given so far
RequestedSize ==
  HEADER + 8 * nkeys(mem[new]) + 2 * nkeys(mem[new]) + PayloadSize(supplied)

\* C9: a nodeAppendKV, nodeAppendRange or leafInsert call building a node
\* whose encoded size exceeds the destination buffer panics; none returns
\* normally with only part of a record's key/value bytes written.
C9_OverflowPanics ==
  (pc \in {"leafInsert", "build"} /\ RequestedSize > Len(mem[new])) => panicked

\* C10: leafInsert called with idx > old.nkeys() panics and never returns a
\* node (no wrapped-around old.nkeys() - idx is ever used as a record count).
C10_InsertPastEndPanics ==
  (pc = "leafInsert" /\ arg.idx > nkeys(mem[old])) => panicked

C10_Witness ==
  /\ pc = "leafInsert"
  /\ panicked
  /\ nkeys(mem[old]) = 2
  /\ arg.idx = 3

====
